---- MODULE Spec2Model ----
(***************************************************************************)
(* The address-to-demographics pipeline of extract_census:                 *)
(*   process_geography.py            GeocodingMap, process_address         *)
(*   train_of_thought_..._latlon.py  CensusDataFetcher, process_request    *)
(*   streamlit_combined.py           CombinedCensusMap, process_request    *)
(* External services (geocoder, reverse geocoder, boundary service,        *)
(* language model, statistics service) are the environment: each call      *)
(* draws one of the outcomes the service can produce.                      *)
(***************************************************************************)
EXTENDS Integers, Sequences, FiniteSets, TLC

VARIABLES
    app,              \* which script's entry point runs
    environ,          \* the process environment (os.environ after load_dotenv)
    instance,         \* what the entry point's constructor call produced
    pc,               \* position of the orchestrator
    calls,            \* stages invoked so far, in order
    outcomes,         \* how each invoked stage ended: "ok", "fail" or "raise"
    messages,         \* user-facing messages emitted so far
    exc,              \* the exception that escaped into the orchestrator
    geo_resp,         \* geocoder outcome seen by geocode_address
    result,           \* geocode_address's return value
    rev_resp,         \* reverse-geocoder outcome seen by get_location_info
    county, state,    \* get_location_info's return pair
    block_group_data, \* get_block_group_data's return value
    llm_text,         \* the language model's response text, as received
    agent_result,     \* comprehensive_census_agent's return value
    fetch_args,       \* the arguments fetch_census_data was invoked with
    census_data,      \* CensusDataFetcher.process_request's return value
    ret,              \* process_request's return value
    clip_in,          \* arguments of create_buffer_and_clip
    clipped,          \* create_buffer_and_clip's first return value
    buffer,           \* create_buffer_and_clip's second return value
    hist_values       \* the values the histogram and the statistics are drawn from

vars == <<app, environ, instance, pc, calls, outcomes, messages, exc, geo_resp, result, rev_resp, county,
          state, block_group_data, llm_text, agent_result, fetch_args,
          census_data, ret, clip_in, clipped, buffer, hist_values>>

(***************************************************************************)
(* Bounds of the model.                                                    *)
(***************************************************************************)
\* longest language-model response text, in characters
MaxLen == 3
\* most candidates in one geocoder response
MaxFeatures == 2
\* most rows in one statistics table
MaxRows == 2
\* most fields of a structured query that are null or missing at once
MaxNullFields == 1

(***************************************************************************)
(* Python values.  Every value is a record with a kind, so that values of  *)
(* different Python types can be compared.                                 *)
(***************************************************************************)
None == [kind |-> "None"]
Unset == [kind |-> "unset"]
Str(s) == [kind |-> "str", v |-> s]
Num(n) == [kind |-> "num", v |-> n]
NaN == [kind |-> "NaN"]
List(items) == [kind |-> "list", items |-> items]
Dict(d) == [kind |-> "dict", d |-> d]
Text(chars) == [kind |-> "text", chars |-> chars]
EmptyMap == [k \in {} |-> None]

\* bool(x) for the kinds of value the orchestrators test
Truthy(x) ==
    CASE x.kind = "None" -> FALSE
      [] x.kind = "str" -> x.v # ""
      [] x.kind = "dict" -> DOMAIN x.d # {}
      [] x.kind = "list" -> x.items # <<>>
      [] OTHER -> TRUE

\* dict.get(key, default)
Get(d, key, default) == IF key \in DOMAIN d THEN d[key] ELSE default

\* str(x) as an f-string renders it
Format(x) == IF x.kind = "None" THEN "None" ELSE x.v

\* what a call produces: a return value, or an exception, and what it printed
Return(v) == [raised |-> "none", value |-> v, msgs |-> <<>>]
ReturnMsg(v, m) == [raised |-> "none", value |-> v, msgs |-> <<m>>]
Raise(e) == [raised |-> e, value |-> Unset, msgs |-> <<>>]
Msg(text, code) == [text |-> text, code |-> code]

Min(a, b) == IF a < b THEN a ELSE b
Max(a, b) == IF a > b THEN a ELSE b

(***************************************************************************)
(* Text.  A response text is a sequence of characters over:                *)
(*   " "  whitespace        "w"  any other character of prose              *)
(*   "{"  "}"  braces       "m"  the member list of a JSON object          *)
(* The values the member list "m" carries are the payload of the response. *)
(***************************************************************************)
Chars == {" ", "w", "{", "}", "m"}

SeqsUpTo(S, n) == UNION {[1..k -> S] : k \in 0..n}

\* str.strip()
RECURSIVE lstrip(_)
lstrip(s) == IF s # <<>> /\ Head(s) = " " THEN lstrip(Tail(s)) ELSE s
RECURSIVE rstrip(_)
rstrip(s) ==
    IF s # <<>> /\ s[Len(s)] = " " THEN rstrip(SubSeq(s, 1, Len(s) - 1)) ELSE s
strip(s) == rstrip(lstrip(s))

\* str.find(c): the 0-based index of the first c, or -1
find(s, c) ==
    IF \E i \in 1..Len(s) : s[i] = c
    THEN (CHOOSE i \in 1..Len(s) : s[i] = c /\ \A j \in 1..(i - 1) : s[j] # c) - 1
    ELSE -1

\* str.rfind(c): the 0-based index of the last c, or -1
rfind(s, c) ==
    IF \E i \in 1..Len(s) : s[i] = c
    THEN (CHOOSE i \in 1..Len(s) : s[i] = c /\ \A j \in (i + 1)..Len(s) : s[j] # c) - 1
    ELSE -1

\* s[a:b] with Python's clamping and negative indices
Slice(s, a, b) ==
    LET lo == IF a < 0 THEN Max(Len(s) + a, 0) ELSE Min(a, Len(s))
        hi == IF b < 0 THEN Max(Len(s) + b, 0) ELSE Min(b, Len(s))
    IN  SubSeq(s, lo + 1, hi)

\* json.loads: the text is a JSON object iff, whitespace aside, it is
\* "{" [members] "}".  Anything else raises JSONDecodeError.
IsJsonObject(s) ==
    LET t == strip(s)
    IN  /\ Len(t) >= 2
        /\ t[1] = "{"
        /\ t[Len(t)] = "}"
        /\ \A i \in 2..(Len(t) - 1) : t[i] \in {" ", "m"}
        /\ Cardinality({i \in 2..(Len(t) - 1) : t[i] = "m"}) <= 1

json_loads(s, payload) ==
    IF ~IsJsonObject(s) THEN Raise("JSONDecodeError")
    ELSE IF \E i \in 1..Len(s) : s[i] = "m" THEN Return(Dict(payload))
    ELSE Return(Dict(EmptyMap))

(***************************************************************************)
(* Stage 1: GeocodingMap.geocode_address.                                  *)
(* The geocoder either fails at the network level (requests.get raises) or *)
(* answers with a status code and a "features" array of candidates, each   *)
(* with a "center" pair <<longitude, latitude>>.                           *)
(***************************************************************************)
Centers == {<<-77, 38>>, <<-95, 29>>}
StatusCodes == {200, 401, 500}
Features == [center : Centers]

GeocoderOutcomes ==
    {[kind |-> "raise", exc |-> "ConnectionError"]}
    \cup {[kind |-> "response", status_code |-> c, features |-> f] :
            c \in StatusCodes, f \in SeqsUpTo(Features, MaxFeatures)}

\* a variant that reads the last candidate instead of the first
geocode_address_last(response) ==
    IF response.kind = "raise" THEN Raise(response.exc)
    ELSE IF response.status_code = 200
    THEN IF response.features # <<>>
         THEN LET coordinates == response.features[Len(response.features)].center
              IN  Return(Dict([longitude |-> Num(coordinates[1]),
                               latitude |-> Num(coordinates[2])]))
         ELSE Return(None)
    ELSE ReturnMsg(None, Msg("Error: ", response.status_code))

geocode_address(response) ==
    IF response.kind = "raise" THEN Raise(response.exc)
    ELSE IF response.status_code = 200
    THEN IF response.features # <<>>
         THEN LET coordinates == response.features[1].center
              IN  Return(Dict([longitude |-> Num(coordinates[1]),
                               latitude |-> Num(coordinates[2])]))
         ELSE Return(None)
    ELSE ReturnMsg(None, Msg("Error: ", response.status_code))

(***************************************************************************)
(* Stage 2: GeocodingMap.get_location_info.                                *)
(* geolocator.reverse raises GeocoderTimedOut or another geopy error,      *)
(* returns None when it finds nothing, or returns a location whose raw     *)
(* structure may hold an "address" dict with "county" and "state" keys.    *)
(***************************************************************************)
PlaceName == [county |-> Str("Harris County"), state |-> Str("Texas")]
Addresses == {[k \in K |-> PlaceName[k]] : K \in SUBSET {"county", "state"}}
Raws == {EmptyMap} \cup {[k \in {"address"} |-> Dict(a)] : a \in Addresses}

ReverseOutcomes ==
    {[kind |-> "raise", exc |-> "GeocoderTimedOut"],
     [kind |-> "raise", exc |-> "GeocoderUnavailable"],
     [kind |-> "none"]}
    \cup {[kind |-> "location", raw |-> r] : r \in Raws}

get_location_info(location) ==
    IF location.kind = "raise"
    THEN IF location.exc = "GeocoderTimedOut"
         THEN ReturnMsg(<<None, None>>,
                        Msg("The geocoding service timed out. Please try again.", 0))
         ELSE Raise(location.exc)
    ELSE IF location.kind = "none" THEN Raise("AttributeError")
    ELSE IF "address" \notin DOMAIN location.raw THEN Raise("KeyError")
    ELSE LET address == location.raw["address"].d
         IN  Return(<<Get(address, "county", Str("")),
                      Get(address, "state", Str(""))>>)

(***************************************************************************)
(* Frames.  A (Geo)DataFrame is an ordered list of column names and a      *)
(* list of rows, each row a function from the column names to values.      *)
(* A geometry is described radially: the distances, in hundredths of a     *)
(* projected meter, of its nearest and farthest point from the address     *)
(* point.                                                                  *)
(***************************************************************************)
Frame(columns, rows, crs) ==
    [kind |-> "frame", columns |-> columns, rows |-> rows, crs |-> crs]
Geom(near, far) == [kind |-> "geom", near |-> near, far |-> far]
Range(s) == {s[i] : i \in 1..Len(s)}
HasColumn(frame, c) == c \in Range(frame.columns)
Ids(frame) == {frame.rows[i]["GEOID"] : i \in 1..Len(frame.rows)}

Geoms == {Geom(0, 100000), Geom(400000, 600000),
          Geom(700000, 900000), Geom(900000, 1000000)}

(***************************************************************************)
(* Stage 3: GeocodingMap.get_block_group_data.                             *)
(* pygris.block_groups raises, or returns the county's block groups, each  *)
(* with its own identifier; an older vintage names the column GEOID10.     *)
(***************************************************************************)
BoundaryIds == {"g1", "g2"}
BoundaryRows == {[GEOID |-> Str(i), geometry |-> g] : i \in BoundaryIds, g \in Geoms}
BoundaryFrames ==
    {Frame(<<"GEOID", "geometry">>, rows, "EPSG:4269") :
        rows \in {s \in SeqsUpTo(BoundaryRows, Cardinality(BoundaryIds)) :
                    /\ Len(s) >= 1
                    /\ \A i, j \in 1..Len(s) : s[i].GEOID = s[j].GEOID => i = j}}
    \cup {Frame(<<"GEOID10", "geometry">>,
                <<[GEOID10 |-> Str("g1"), geometry |-> Geom(0, 100000)]>>, "EPSG:4269")}

BoundaryOutcomes ==
    {[kind |-> "raise", exc |-> "Exception"]}
    \cup {[kind |-> "data", frame |-> f] : f \in BoundaryFrames}

get_block_group_data(bg_data) ==
    IF bg_data.kind = "raise"
    THEN ReturnMsg(None, Msg("Error fetching block group data: ", 0))
    ELSE Return(bg_data.frame)

(***************************************************************************)
(* Stage 4: CensusDataFetcher.comprehensive_census_agent and               *)
(* get_census_parameters.                                                  *)
(* The completion call raises, or returns a response text.  The payload of *)
(* a response gives, for each field of the structured query, a value, a    *)
(* null, or nothing.                                                       *)
(***************************************************************************)
Fields == {"dataset", "variables", "year", "geography", "state_fips", "county_fips"}
FieldStates == {"ok", "null", "missing", "nofor", "nullfor"}
OkValue ==
    [dataset |-> Str("acs/acs5"), variables |-> List(<<"B01003_001E">>),
     year |-> Str("2021"), geography |-> Dict([for |-> Str("block group")]),
     state_fips |-> Str("48"), county_fips |-> Str("201")]

FieldValue(k, st) ==
    CASE st = "null" -> None
      [] st = "nofor" -> Dict(EmptyMap)
      [] st = "nullfor" -> Dict([for |-> None])
      [] OTHER -> OkValue[k]

PayloadOf(fs) == [k \in {f \in Fields : fs[f] # "missing"} |-> FieldValue(k, fs[k])]

Payloads ==
    {PayloadOf(fs) :
        fs \in {f \in [Fields -> FieldStates] :
                  /\ \A k \in Fields : f[k] \in {"nofor", "nullfor"} => k = "geography"
                  /\ Cardinality({k \in Fields : f[k] # "ok"}) <= MaxNullFields}}

CompletePayload == PayloadOf([k \in Fields |-> "ok"])

\* the member list of the text is what json.loads gets to read
ReadsMembers(chars) ==
    LET content == strip(chars)
        json_str == Slice(content, find(content, "{"), rfind(content, "}") + 1)
    IN  IsJsonObject(json_str) /\ \E i \in 1..Len(json_str) : json_str[i] = "m"

LLMOutcomes ==
    {[kind |-> "raise", exc |-> "APIConnectionError"]}
    \cup {[kind |-> "text", chars |-> t, payload |-> CompletePayload] :
            t \in SeqsUpTo(Chars, MaxLen)}
    \cup {[kind |-> "text", chars |-> t, payload |-> p] :
            t \in {u \in SeqsUpTo(Chars, MaxLen) : ReadsMembers(u)}, p \in Payloads}

\* a variant that reports the extracted span instead of the content
comprehensive_census_agent_span(response) ==
    IF response.kind = "raise" THEN Raise(response.exc)
    ELSE LET content == strip(response.chars)
             json_start == find(content, "{")
             json_end == rfind(content, "}") + 1
             json_str == Slice(content, json_start, json_end)
             parsed == json_loads(json_str, response.payload)
         IN  IF parsed.raised = "JSONDecodeError"
             THEN Return(Dict([error |-> Str("Failed to parse response"),
                               raw_response |-> Text(json_str)]))
             ELSE parsed

comprehensive_census_agent(response) ==
    IF response.kind = "raise" THEN Raise(response.exc)
    ELSE LET content == strip(response.chars)
             json_start == find(content, "{")
             json_end == rfind(content, "}") + 1
             json_str == Slice(content, json_start, json_end)
             parsed == json_loads(json_str, response.payload)
         IN  IF parsed.raised = "JSONDecodeError"
             THEN Return(Dict([error |-> Str("Failed to parse response"),
                               raw_response |-> Text(content)]))
             ELSE parsed

FipsFilter(state_fips, county_fips) ==
    [kind |-> "filter", state |-> Format(state_fips), county |-> Format(county_fips)]

get_census_parameters(agent) ==
    IF agent.raised # "none" THEN agent
    ELSE LET r == agent.value.d
             geography == Get(r, "geography", Dict(EmptyMap))
         IN  IF geography.kind # "dict" THEN Raise("AttributeError")
             ELSE Return([dataset |-> Get(r, "dataset", None),
                          variables |-> Get(r, "variables", None),
                          year |-> Get(r, "year", None),
                          params |-> [for |-> Get(geography.d, "for", None),
                                      in |-> FipsFilter(Get(r, "state_fips", None),
                                                        Get(r, "county_fips", None))]])

(***************************************************************************)
(* Stage 5: CensusDataFetcher.fetch_census_data.                           *)
(* get_census raises (the request fails, or the service rejects it), or    *)
(* returns a table with one row per identifier.  A request that names no   *)
(* dataset, variables, year, geography or FIPS code is rejected.           *)
(***************************************************************************)
StatIds == {"g1", "g2", "x9"}
StatValues == {10, 20}
StatRows == {[GEOID |-> Str(i), B01003_001E |-> Num(v)] : i \in StatIds, v \in StatValues}
StatTables ==
    {Frame(<<"GEOID", "B01003_001E">>, rows, "none") :
        rows \in SeqsUpTo(StatRows, MaxRows)}
    \cup {Frame(<<"B01003_001E">>, <<[B01003_001E |-> Num(10)]>>, "none")}

WellFormedRequest(args) ==
    /\ args.dataset.kind # "None"
    /\ args.variables.kind # "None"
    /\ args.year.kind # "None"
    /\ args.params["for"].kind # "None"
    /\ args.params["in"].state # "None"
    /\ args.params["in"].county # "None"

\* what get_census can do with the request it is given
StatsOutcomes(args) ==
    {[kind |-> "raise", exc |-> "Exception"]}
    \cup IF WellFormedRequest(args)
         THEN {[kind |-> "data", frame |-> f] : f \in StatTables}
         ELSE {}

fetch_census_data(args, data) ==
    IF data.kind = "raise"
    THEN ReturnMsg(None, Msg("Error fetching census data: ", 0))
    ELSE Return(data.frame)

(***************************************************************************)
(* Stage 6: the join (DataFrame.merge) and the clip (geopandas.clip).      *)
(***************************************************************************)
\* a variant that joins how='inner': left rows without a match are dropped
merge_inner(left, right) ==
    LET IsValue(c) == c # "GEOID"
        columns == left.columns \o SelectSeq(right.columns, IsValue)
        Joined(l, r) == [c \in Range(columns) |-> IF c \in DOMAIN l THEN l[c] ELSE r[c]]
        RowsFor(l) ==
            LET Same(r) == r["GEOID"] = l["GEOID"]
                found == SelectSeq(right.rows, Same)
            IN  [j \in 1..Len(found) |-> Joined(l, found[j])]
        RECURSIVE Rows(_)
        Rows(ls) == IF ls = <<>> THEN <<>> ELSE RowsFor(Head(ls)) \o Rows(Tail(ls))
    IN  Frame(columns, Rows(left.rows), left.crs)

\* block_group_data.merge(census_data, on='GEOID', how='left'): every left
\* row, in order, once per right row with its GEOID, or once with NaN in
\* the right columns when no right row has it
merge(left, right) ==
    LET IsValue(c) == c # "GEOID"
        columns == left.columns \o SelectSeq(right.columns, IsValue)
        Joined(l, r) == [c \in Range(columns) |-> IF c \in DOMAIN l THEN l[c] ELSE r[c]]
        Unmatched(l) == [c \in Range(columns) |-> IF c \in DOMAIN l THEN l[c] ELSE NaN]
        RowsFor(l) ==
            LET Same(r) == r["GEOID"] = l["GEOID"]
                found == SelectSeq(right.rows, Same)
            IN  IF found = <<>> THEN <<Unmatched(l)>>
                ELSE [j \in 1..Len(found) |-> Joined(l, found[j])]
        RECURSIVE Rows(_)
        Rows(ls) == IF ls = <<>> THEN <<>> ELSE RowsFor(Head(ls)) \o Rows(Tail(ls))
    IN  Frame(columns, Rows(left.rows), left.crs)

\* GeoDataFrame.to_crs(epsg=4326)
to_crs(frame, epsg) == [frame EXCEPT !.crs = epsg]

\* Point -> EPSG:3857 -> buffer(distance) -> EPSG:4326: the disc of the
\* given projected radius around the point
Buffer(longitude, latitude, distance) ==
    [kind |-> "buffer", center |-> <<longitude, latitude>>, radius |-> distance,
     crs |-> "EPSG:4326"]

\* geopandas.clip(data, mask): the rows whose geometry meets the mask, each
\* with its geometry cut to the mask
clip(data, mask) ==
    LET Meets(row) == row["geometry"].near <= mask.radius
        kept == SelectSeq(data.rows, Meets)
        Cut(row) ==
            [row EXCEPT !["geometry"] = Geom(@.near, Min(@.far, mask.radius))]
    IN  [data EXCEPT !.rows = [i \in 1..Len(kept) |-> Cut(kept[i])]]

\* buffer_miles defaults of the two create_buffer_and_clip methods, and the
\* distances they buffer by, in hundredths of a meter
GeocodingMapDefaultMiles == 3
GeocodingMapBufferDistance == 482803
CombinedDefaultMiles == 5
CombinedBufferDistance == 804672

GeocodingMap_create_buffer_and_clip(latitude, longitude, data, buffer_miles) ==
    LET buffer_wgs84 == Buffer(longitude, latitude, GeocodingMapBufferDistance)
    IN  <<clip(data, buffer_wgs84), buffer_wgs84>>

CombinedCensusMap_create_buffer_and_clip(latitude, longitude, data, buffer_miles) ==
    LET buffer_wgs84 == Buffer(longitude, latitude, CombinedBufferDistance)
    IN  <<clip(to_crs(data, "EPSG:4326"), buffer_wgs84), buffer_wgs84>>

(***************************************************************************)
(* Construction.  environ maps the names of the environment variables that *)
(* are set to their values; a name that is not set is not in its domain.   *)
(***************************************************************************)
Environs ==
    {EmptyMap,
     [MAPBOX_ACCESS_TOKEN |-> Str("")],
     [MAPBOX_ACCESS_TOKEN |-> Str("pk.token")]}

\* os.getenv(name)
getenv(env, name) == Get(env, name, None)

Object(cls) == [kind |-> "object", cls |-> cls]

\* GeocodingMap.__init__ without the check of the access token
GeocodingMap_init_unchecked(env) == Return(Object("GeocodingMap"))

\* GeocodingMap.__init__
GeocodingMap_init(env) ==
    LET access_token == getenv(env, "MAPBOX_ACCESS_TOKEN")
    IN  IF ~ Truthy(access_token)
        THEN Raise("ValueError")
        ELSE Return(Object("GeocodingMap"))

\* pd.read_csv(variables_file) finds the variables file, or does not
VariablesFiles == {"readable", "missing"}

\* CensusDataFetcher.__init__: builds the client and reads the variables file
CensusDataFetcher_init(variables_file) ==
    IF variables_file = "missing"
    THEN Raise("FileNotFoundError")
    ELSE Return(Object("CensusDataFetcher"))

\* CombinedCensusMap.__init__: the fetcher first, then the geocoding map
CombinedCensusMap_init(env, variables_file) ==
    LET census_fetcher == CensusDataFetcher_init(variables_file)
        geocoding_map == GeocodingMap_init(env)
    IN  IF census_fetcher.raised # "none" THEN census_fetcher
        ELSE IF geocoding_map.raised # "none" THEN geocoding_map
        ELSE Return(Object("CombinedCensusMap"))

\* the constructor call as the entry point sees it
Constructed(o) ==
    IF o.raised = "none" THEN o.value ELSE [kind |-> "raised", e |-> o.raised]

(***************************************************************************)
(* The programs.  app is the entry point that runs:                        *)
(*   "combined"  streamlit_combined.main, the "Generate Map" button        *)
(*   "geo"       process_geography's __main__, process_address             *)
(*   "fetcher"   train_of_thought_..._latlon's __main__, process_request   *)
(*   "library"   a direct call of one create_buffer_and_clip method        *)
(* messages holds the failure messages shown to the user (st.error, and    *)
(* the prints of the command-line scripts).                                *)
(***************************************************************************)
Apps == {"combined", "geo", "fetcher", "library"}
BufferMiles == {1, 3, 5}

Init ==
    /\ app \in Apps
    /\ environ \in Environs
    /\ instance = Unset
    /\ pc = "init"
    /\ calls = <<>>
    /\ outcomes = <<>>
    /\ messages = <<>>
    /\ exc = "none"
    /\ geo_resp = Unset
    /\ result = Unset
    /\ rev_resp = Unset
    /\ county = Unset
    /\ state = Unset
    /\ block_group_data = Unset
    /\ llm_text = Unset
    /\ agent_result = Unset
    /\ fetch_args = Unset
    /\ census_data = Unset
    /\ ret = Unset
    /\ clip_in = Unset
    /\ clipped = Unset
    /\ buffer = Unset
    /\ hist_values = Unset

\* streamlit_combined.main: combined_census_map = CombinedCensusMap(); an
\* exception of the constructor is not caught and ends the script run
Main_Construct ==
    /\ app = "combined" /\ pc = "init"
    /\ \E variables_file \in VariablesFiles :
        LET o == CombinedCensusMap_init(environ, variables_file)
        IN  /\ instance' = Constructed(o)
            /\ pc' = IF o.raised = "none" THEN "start" ELSE "aborted"
    /\ UNCHANGED <<app, environ, calls, outcomes, messages, exc, geo_resp,
                   result, rev_resp, county, state, block_group_data, llm_text,
                   agent_result, fetch_args, census_data, ret, clip_in,
                   clipped, buffer, hist_values>>

\* process_geography's __main__: geocoding_map = GeocodingMap(); the
\* ValueError is caught and printed, and the script ends
Geo_Construct ==
    /\ app = "geo" /\ pc = "init"
    /\ LET o == GeocodingMap_init(environ)
       IN  /\ instance' = Constructed(o)
           /\ pc' = IF o.raised = "none" THEN "start" ELSE "aborted"
           /\ messages' = IF o.raised = "ValueError"
                           THEN Append(messages,
                                    Msg("Error: Mapbox access token not found in environment variables", 0))
                           ELSE messages
    /\ UNCHANGED <<app, environ, calls, outcomes, exc, geo_resp,
                   result, rev_resp, county, state, block_group_data, llm_text,
                   agent_result, fetch_args, census_data, ret, clip_in,
                   clipped, buffer, hist_values>>

\* train_of_thought_..._latlon's __main__: fetcher = CensusDataFetcher()
Fetcher_Construct ==
    /\ app = "fetcher" /\ pc = "init"
    /\ \E variables_file \in VariablesFiles :
        LET o == CensusDataFetcher_init(variables_file)
        IN  /\ instance' = Constructed(o)
            /\ pc' = IF o.raised = "none" THEN "start" ELSE "aborted"
    /\ UNCHANGED <<app, environ, calls, outcomes, messages, exc, geo_resp,
                   result, rev_resp, county, state, block_group_data, llm_text,
                   agent_result, fetch_args, census_data, ret, clip_in,
                   clipped, buffer, hist_values>>

\* a caller of create_buffer_and_clip constructs the object it calls it on
Lib_Construct ==
    /\ app = "library" /\ pc = "init"
    /\ \E cls \in {"GeocodingMap", "CombinedCensusMap"},
          variables_file \in VariablesFiles :
        LET o == IF cls = "GeocodingMap"
                 THEN GeocodingMap_init(environ)
                 ELSE CombinedCensusMap_init(environ, variables_file)
        IN  /\ instance' = Constructed(o)
            /\ pc' = IF o.raised = "none" THEN "start" ELSE "aborted"
    /\ UNCHANGED <<app, environ, calls, outcomes, messages, exc, geo_resp,
                   result, rev_resp, county, state, block_group_data, llm_text,
                   agent_result, fetch_args, census_data, ret, clip_in,
                   clipped, buffer, hist_values>>

\* CombinedCensusMap.process_request, step 3: geocode the address
PR_Geocode ==
    /\ app = "combined" /\ pc = "start"
    /\ \E response \in GeocoderOutcomes :
        LET o == geocode_address(response)
        IN  /\ calls' = Append(calls, "geocode")
            /\ outcomes' = Append(outcomes,
                   IF o.raised # "none" THEN "raise"
                   ELSE IF Truthy(o.value) THEN "ok" ELSE "fail")
            /\ geo_resp' = response
            /\ IF o.raised # "none"
               THEN /\ exc' = o.raised
                    /\ pc' = "crashed"
                    /\ UNCHANGED <<messages, result, ret>>
               ELSE /\ result' = o.value
                    /\ exc' = exc
                    /\ IF ~Truthy(o.value)
                       THEN /\ messages' = messages \o o.msgs
                                   \o <<Msg("Failed to geocode the address.", 0)>>
                            /\ ret' = None
                            /\ pc' = "returned"
                       ELSE /\ messages' = messages \o o.msgs
                            /\ ret' = ret
                            /\ pc' = "locate"
    /\ UNCHANGED <<app, environ, instance, rev_resp, county, state, block_group_data, llm_text,
                   agent_result, fetch_args, census_data, clip_in, clipped, buffer,
                   hist_values>>

\* CombinedCensusMap.process_request: county and state of the coordinates
PR_Locate ==
    /\ app = "combined" /\ pc = "locate"
    /\ \E location \in ReverseOutcomes :
        LET o == get_location_info(location)
        IN  /\ calls' = Append(calls, "reverse")
            /\ outcomes' = Append(outcomes,
                   IF o.raised # "none" THEN "raise"
                   ELSE IF Truthy(o.value[1]) /\ Truthy(o.value[2]) THEN "ok"
                   ELSE "fail")
            /\ rev_resp' = location
            /\ geo_resp' = Unset
            /\ IF o.raised # "none"
               THEN /\ exc' = o.raised
                    /\ pc' = "crashed"
                    /\ UNCHANGED <<messages, county, state, ret>>
               ELSE /\ county' = o.value[1]
                    /\ state' = o.value[2]
                    /\ exc' = exc
                    /\ IF ~Truthy(o.value[1]) \/ ~Truthy(o.value[2])
                       THEN /\ messages' = messages \o o.msgs
                                   \o <<Msg("Failed to get county and state information.", 0)>>
                            /\ ret' = None
                            /\ pc' = "returned"
                       ELSE /\ messages' = messages \o o.msgs
                            /\ ret' = ret
                            /\ pc' = "boundary"
    /\ UNCHANGED <<app, environ, instance, result, block_group_data, llm_text, agent_result,
                   fetch_args, census_data, clip_in, clipped, buffer, hist_values>>

\* CombinedCensusMap.process_request, step 4: the TIGER boundary data
PR_Boundary ==
    /\ app = "combined" /\ pc = "boundary"
    /\ \E bg_data \in BoundaryOutcomes :
        LET o == get_block_group_data(bg_data)
        IN  /\ calls' = Append(calls, "boundary")
            /\ outcomes' = Append(outcomes, IF o.value = None THEN "fail" ELSE "ok")
            /\ rev_resp' = Unset
            /\ block_group_data' = o.value
            /\ IF o.value = None
               THEN /\ messages' = messages \o o.msgs
                           \o <<Msg("Failed to retrieve block group data.", 0)>>
                    /\ ret' = None
                    /\ pc' = "returned"
               ELSE /\ messages' = messages \o o.msgs
                    /\ ret' = ret
                    /\ pc' = "census"
    /\ UNCHANGED <<app, environ, instance, exc, geo_resp, result, county, state, llm_text,
                   agent_result, fetch_args, census_data, clip_in, clipped, buffer,
                   hist_values>>

\* CensusDataFetcher.process_request, first half: get_census_parameters,
\* which calls comprehensive_census_agent
FR_Interpret ==
    /\ \/ app = "combined" /\ pc = "census"
       \/ app = "fetcher" /\ pc = "start"
    /\ \E response \in LLMOutcomes :
        LET agent == comprehensive_census_agent(response)
            o == get_census_parameters(agent)
        IN  /\ calls' = Append(calls, "interpret")
            /\ outcomes' = Append(outcomes,
                   IF o.raised # "none" THEN "raise"
                   ELSE IF "error" \in DOMAIN agent.value.d THEN "fail" ELSE "ok")
            /\ llm_text' = IF response.kind = "text" THEN Text(response.chars) ELSE Unset
            /\ agent_result' = IF agent.raised = "none" THEN agent.value ELSE Unset
            /\ IF o.raised # "none"
               THEN /\ exc' = o.raised
                    /\ pc' = "crashed"
                    /\ fetch_args' = fetch_args
               ELSE /\ fetch_args' = o.value
                    /\ exc' = exc
                    /\ pc' = "fetch"
    /\ UNCHANGED <<app, environ, instance, messages, geo_resp, result, rev_resp, county, state,
                   block_group_data, census_data, ret, clip_in, clipped, buffer,
                   hist_values>>

\* CensusDataFetcher.process_request, second half: fetch_census_data and
\* the return of its result
FR_Fetch ==
    /\ app \in {"combined", "fetcher"} /\ pc = "fetch"
    /\ \E data \in StatsOutcomes(fetch_args) :
        LET o == fetch_census_data(fetch_args, data)
        IN  /\ calls' = Append(calls, "statistics")
            /\ outcomes' = Append(outcomes, IF o.value = None THEN "fail" ELSE "ok")
            /\ census_data' = o.value
            /\ messages' = IF o.value = None
                           THEN messages \o o.msgs
                                    \o <<Msg("Failed to fetch census data.", 0)>>
                           ELSE messages \o o.msgs
    /\ llm_text' = Unset
    /\ pc' = IF app = "combined" THEN "join" ELSE "done"
    /\ UNCHANGED <<app, environ, instance, exc, geo_resp, result, rev_resp, county, state,
                   block_group_data, agent_result, fetch_args, ret, clip_in,
                   clipped, buffer, hist_values>>

\* CombinedCensusMap.process_request, steps 5 and 6: the check of the census
\* data, the merge onto the boundaries, and the return
PR_Join ==
    /\ app = "combined" /\ pc = "join"
    /\ pc' = "returned"
    /\ agent_result' = Unset
    /\ fetch_args' = Unset
    /\ IF census_data = None
       THEN /\ messages' = Append(messages, Msg("Failed to fetch census data.", 0))
            /\ ret' = None
            /\ UNCHANGED <<calls, outcomes>>
       ELSE IF ~HasColumn(block_group_data, "GEOID")
       THEN /\ messages' = Append(messages,
                   Msg("Error: 'GEOID' column not found in block_group_data", 0))
            /\ ret' = None
            /\ UNCHANGED <<calls, outcomes>>
       ELSE IF ~HasColumn(census_data, "GEOID")
       THEN /\ messages' = Append(messages,
                   Msg("Error: 'GEOID' column not found in census_data", 0))
            /\ ret' = None
            /\ UNCHANGED <<calls, outcomes>>
       ELSE /\ ret' = [kind |-> "tuple",
                       latitude |-> result.d.latitude,
                       longitude |-> result.d.longitude,
                       county |-> county, state |-> state,
                       merged_data |->
                           to_crs(merge(block_group_data, census_data), "EPSG:4326")]
            /\ calls' = Append(calls, "join")
            /\ outcomes' = Append(outcomes, "ok")
            /\ messages' = messages
    /\ UNCHANGED <<app, environ, instance, exc, geo_resp, result, rev_resp, county, state,
                   block_group_data, llm_text, census_data, clip_in, clipped, buffer,
                   hist_values>>

\* streamlit_combined.main after process_request: plot_map (which clips the
\* merged data to the buffer), then the histogram and the statistics of the
\* last column
Main_Render ==
    /\ app = "combined" /\ pc = "returned"
    /\ pc' = "done"
    /\ result' = Unset
    /\ county' = Unset
    /\ state' = Unset
    /\ block_group_data' = Unset
    /\ census_data' = Unset
    /\ geo_resp' = Unset
    /\ rev_resp' = Unset
    /\ IF ret.kind = "tuple"
       THEN LET merged_data == ret.merged_data
                variable_name == merged_data.columns[Len(merged_data.columns)]
                out == CombinedCensusMap_create_buffer_and_clip(
                           ret.latitude, ret.longitude, merged_data,
                           CombinedDefaultMiles)
            IN  /\ clip_in' = [kind |-> "args", cls |-> "CombinedCensusMap",
                               latitude |-> ret.latitude,
                               longitude |-> ret.longitude,
                               data |-> merged_data,
                               buffer_miles |-> CombinedDefaultMiles]
                /\ clipped' = out[1]
                /\ buffer' = out[2]
                /\ calls' = calls \o <<"clip", "render">>
                /\ outcomes' = outcomes \o <<"ok", "ok">>
                /\ hist_values' = [i \in 1..Len(merged_data.rows) |->
                                      merged_data.rows[i][variable_name]]
       ELSE UNCHANGED <<clip_in, clipped, buffer, calls, outcomes, hist_values>>
    /\ UNCHANGED <<app, environ, instance, messages, exc, llm_text, agent_result, fetch_args, ret>>

\* GeocodingMap.process_address: geocode the address
PA_Geocode ==
    /\ app = "geo" /\ pc = "start"
    /\ \E response \in GeocoderOutcomes :
        LET o == geocode_address(response)
        IN  /\ calls' = Append(calls, "geocode")
            /\ outcomes' = Append(outcomes,
                   IF o.raised # "none" THEN "raise"
                   ELSE IF Truthy(o.value) THEN "ok" ELSE "fail")
            /\ geo_resp' = response
            /\ IF o.raised # "none"
               THEN /\ exc' = o.raised
                    /\ pc' = "crashed"
                    /\ UNCHANGED <<messages, result>>
               ELSE /\ result' = o.value
                    /\ exc' = exc
                    /\ IF Truthy(o.value)
                       THEN /\ messages' = messages \o o.msgs
                            /\ pc' = "locate"
                       ELSE /\ messages' = messages \o o.msgs
                                   \o <<Msg("Geocoding failed or no results found.", 0)>>
                            /\ pc' = "done"
    /\ UNCHANGED <<app, environ, instance, rev_resp, county, state, block_group_data, llm_text,
                   agent_result, fetch_args, census_data, ret, clip_in, clipped, buffer,
                   hist_values>>

\* GeocodingMap.process_address: county and state of the coordinates
PA_Locate ==
    /\ app = "geo" /\ pc = "locate"
    /\ \E location \in ReverseOutcomes :
        LET o == get_location_info(location)
        IN  /\ calls' = Append(calls, "reverse")
            /\ outcomes' = Append(outcomes,
                   IF o.raised # "none" THEN "raise"
                   ELSE IF Truthy(o.value[1]) /\ Truthy(o.value[2]) THEN "ok"
                   ELSE "fail")
            /\ rev_resp' = location
            /\ geo_resp' = Unset
            /\ IF o.raised # "none"
               THEN /\ exc' = o.raised
                    /\ pc' = "crashed"
                    /\ UNCHANGED <<messages, county, state>>
               ELSE /\ county' = o.value[1]
                    /\ state' = o.value[2]
                    /\ exc' = exc
                    /\ IF Truthy(o.value[1]) /\ Truthy(o.value[2])
                       THEN /\ messages' = messages \o o.msgs
                            /\ pc' = "boundary"
                       ELSE /\ messages' = messages \o o.msgs
                                   \o <<Msg("Couldn't retrieve county and state information.", 0)>>
                            /\ pc' = "done"
    /\ UNCHANGED <<app, environ, instance, result, block_group_data, llm_text, agent_result,
                   fetch_args, census_data, ret, clip_in, clipped, buffer, hist_values>>

\* GeocodingMap.process_address: the block groups of the county
PA_Boundary ==
    /\ app = "geo" /\ pc = "boundary"
    /\ \E bg_data \in BoundaryOutcomes :
        LET o == get_block_group_data(bg_data)
        IN  /\ calls' = Append(calls, "boundary")
            /\ outcomes' = Append(outcomes, IF o.value = None THEN "fail" ELSE "ok")
            /\ rev_resp' = Unset
            /\ block_group_data' = o.value
            /\ IF o.value # None
               THEN /\ messages' = messages \o o.msgs
                    /\ pc' = "clip"
               ELSE /\ messages' = messages \o o.msgs
                           \o <<Msg("Failed to retrieve block group data.", 0)>>
                    /\ pc' = "done"
    /\ UNCHANGED <<app, environ, instance, exc, geo_resp, result, county, state, llm_text,
                   agent_result, fetch_args, census_data, ret, clip_in, clipped, buffer,
                   hist_values>>

\* GeocodingMap.process_address: the buffer, the clip and the map
PA_ClipAndPlot ==
    /\ app = "geo" /\ pc = "clip"
    /\ LET out == GeocodingMap_create_buffer_and_clip(
                      result.d.latitude, result.d.longitude, block_group_data,
                      GeocodingMapDefaultMiles)
       IN  /\ clip_in' = [kind |-> "args", cls |-> "GeocodingMap",
                          latitude |-> result.d.latitude,
                          longitude |-> result.d.longitude,
                          data |-> block_group_data,
                          buffer_miles |-> GeocodingMapDefaultMiles]
           /\ clipped' = out[1]
           /\ buffer' = out[2]
    /\ calls' = calls \o <<"clip", "render">>
    /\ outcomes' = outcomes \o <<"ok", "ok">>
    /\ pc' = "done"
    /\ UNCHANGED <<app, environ, instance, messages, exc, geo_resp, result, rev_resp, county,
                   state, block_group_data, llm_text, agent_result, fetch_args,
                   census_data, ret, hist_values>>

\* a direct call of create_buffer_and_clip, with a buffer_miles argument
Lib_Clip ==
    /\ app = "library" /\ pc = "start"
    /\ \E cls \in {instance.cls}, c \in Centers,
          data \in BoundaryFrames, buffer_miles \in BufferMiles :
        LET out == IF cls = "GeocodingMap"
                   THEN GeocodingMap_create_buffer_and_clip(
                            Num(c[2]), Num(c[1]), data, buffer_miles)
                   ELSE CombinedCensusMap_create_buffer_and_clip(
                            Num(c[2]), Num(c[1]), data, buffer_miles)
        IN  /\ clip_in' = [kind |-> "args", cls |-> cls, latitude |-> Num(c[2]),
                           longitude |-> Num(c[1]), data |-> data,
                           buffer_miles |-> buffer_miles]
            /\ clipped' = out[1]
            /\ buffer' = out[2]
    /\ calls' = Append(calls, "clip")
    /\ outcomes' = Append(outcomes, "ok")
    /\ pc' = "done"
    /\ UNCHANGED <<app, environ, instance, messages, exc, geo_resp, result, rev_resp, county,
                   state, block_group_data, llm_text, agent_result, fetch_args,
                   census_data, ret, hist_values>>

Next ==
    \/ Main_Construct
    \/ Geo_Construct
    \/ Fetcher_Construct
    \/ Lib_Construct
    \/ PR_Geocode
    \/ PR_Locate
    \/ PR_Boundary
    \/ FR_Interpret
    \/ FR_Fetch
    \/ PR_Join
    \/ Main_Render
    \/ PA_Geocode
    \/ PA_Locate
    \/ PA_Boundary
    \/ PA_ClipAndPlot
    \/ Lib_Clip

Spec == Init /\ [][Next]_vars

(***************************************************************************)
(* Properties.                                                             *)
(***************************************************************************)
StageOrder(a) ==
    IF a = "combined"
    THEN <<"geocode", "reverse", "boundary", "interpret", "statistics", "join",
           "clip", "render">>
    ELSE <<"geocode", "reverse", "boundary", "clip", "render">>

IsPrefix(s, t) == Len(s) <= Len(t) /\ \A i \in 1..Len(s) : s[i] = t[i]

Finished == pc \in {"returned", "done"}

\* C1: in process_request and process_address the stages run in the fixed
\* order, each at most once; a stage is invoked only if every earlier stage
\* returned a success; once a stage has returned a failure or an empty
\* result no later stage is invoked, and the run ends with a message shown
\* to the user.
C1_StagesRunInOrderUntilFirstFailure ==
    app \in {"combined", "geo"} =>
        /\ IsPrefix(calls, StageOrder(app))
        /\ \A i \in 1..Len(calls) : \A j \in 1..(i - 1) : outcomes[j] = "ok"
        /\ (Finished /\ \E i \in 1..Len(outcomes) : outcomes[i] = "fail")
               => messages # <<>>

\* C2: no stage lets an exception escape into the orchestrator: every
\* upstream failure ends the stage with a returned failure marker.
C2_NoExceptionEscapesAStage ==
    /\ exc = "none"
    /\ pc # "crashed"
    /\ \A i \in 1..Len(outcomes) : outcomes[i] # "raise"

IsParseFailure(r) == r.kind = "dict" /\ "error" \in DOMAIN r.d

\* C3: when the language-model response is malformed (the agent's result is
\* the "Failed to parse response" one), fetch_census_data is never invoked
\* for that request.
C3_NoStatisticsCallAfterParseFailure ==
    IsParseFailure(agent_result) => "statistics" \notin Range(calls)

IsParsedQuery(r) == r.kind = "dict" /\ "error" \notin DOMAIN r.d
HasNullField(d) == \E k \in Fields : k \notin DOMAIN d \/ d[k] = None

\* C4: for a parsed structured query with a null or missing field,
\* CensusDataFetcher.process_request never crashes, and when it has
\* returned it has returned None.
C4_NullFieldEndsInFailureResult ==
    (IsParsedQuery(agent_result) /\ HasNullField(agent_result.d)) =>
        /\ exc = "none"
        /\ pc # "crashed"
        /\ pc \in {"join", "done"} => census_data = None

\* the text from the first "{" to the last "}" is no JSON object, or there
\* is no such text
NoParseableSpan(chars) ==
    ~ \E i, j \in 1..Len(chars) :
        /\ i < j
        /\ chars[i] = "{" /\ \A k \in 1..(i - 1) : chars[k] # "{"
        /\ chars[j] = "}" /\ \A k \in (j + 1)..Len(chars) : chars[k] # "}"
        /\ IsJsonObject(SubSeq(chars, i, j))

\* C5 as stated: for a response text with no parseable span the agent does
\* not raise and returns the failure result whose raw_response is the
\* response text, unchanged.
C5_RawResponseIsOriginalText ==
    (llm_text.kind = "text" /\ NoParseableSpan(llm_text.chars)) =>
        /\ exc = "none"
        /\ IsParseFailure(agent_result)
        /\ agent_result.d.raw_response = llm_text

\* C5 as amended: for a response text with no parseable span the agent does
\* not raise and returns the failure result whose raw_response is the
\* response text with its leading and trailing whitespace removed.
C5_RawResponseIsStrippedText ==
    (llm_text.kind = "text" /\ NoParseableSpan(llm_text.chars)) =>
        /\ exc = "none"
        /\ IsParseFailure(agent_result)
        /\ agent_result.d.raw_response = Text(strip(llm_text.chars))

\* a malformed response with whitespace around a brace has been interpreted
C5_Witness ==
    /\ llm_text.kind = "text"
    /\ NoParseableSpan(llm_text.chars)
    /\ IsParseFailure(agent_result)
    /\ llm_text.chars # strip(llm_text.chars)
    /\ \E i \in 1..Len(llm_text.chars) : llm_text.chars[i] \in {"{", "}"}

\* C6: when the reverse geocoder's "address" lacks the "county" or the
\* "state" key, or the raw structure has no "address" at all,
\* get_location_info does not raise and returns (None, None).
C6_MissingKeysGiveNullPair ==
    (/\ rev_resp.kind = "location"
     /\ \/ "address" \notin DOMAIN rev_resp.raw
        \/ {"county", "state"} \ DOMAIN rev_resp.raw["address"].d # {}) =>
        /\ exc = "none"
        /\ county = None
        /\ state = None

\* C7: for a 200 response with candidates geocode_address returns the first
\* candidate's center (longitude = center[0], latitude = center[1]); for a
\* 200 response without candidates it returns None; for any other status it
\* returns None and reports the status code.
C7_GeocodeReturnsFirstCenter ==
    geo_resp.kind = "response" =>
        /\ exc = "none"
        /\ (geo_resp.status_code = 200 /\ geo_resp.features # <<>>) =>
               result = Dict([longitude |-> Num(geo_resp.features[1].center[1]),
                              latitude |-> Num(geo_resp.features[1].center[2])])
        /\ (geo_resp.status_code = 200 /\ geo_resp.features = <<>>) =>
               /\ result = None
               /\ \A i \in 1..Len(messages) : messages[i].text # "Error: "
        /\ geo_resp.status_code # 200 =>
               /\ result = None
               /\ Msg("Error: ", geo_resp.status_code) \in Range(messages)

\* a 200 response whose first two candidates differ has been geocoded
C7_Witness ==
    /\ geo_resp.kind = "response"
    /\ geo_resp.status_code = 200
    /\ Len(geo_resp.features) >= 2
    /\ geo_resp.features[1] # geo_resp.features[2]
    /\ result.kind = "dict"

Joinable(frame) == frame.kind = "frame" /\ HasColumn(frame, "GEOID")
JoinDone == app = "combined" /\ pc = "returned" /\ Joinable(block_group_data)
                /\ Joinable(census_data)

\* C8: when no identifier of the statistics table is the identifier of a
\* boundary feature, process_request reports a failure and returns None.
C8_JoinWithoutMatchIsAFailure ==
    (/\ JoinDone
     /\ census_data.rows # <<>>
     /\ Ids(census_data) \cap Ids(block_group_data) = {}) =>
        /\ ret = None
        /\ messages # <<>>

ValueColumns(frame) == Range(frame.columns) \ {"GEOID"}

\* C9: the merged data is the left join on GEOID: every boundary feature is
\* in it, with its geometry; a feature whose GEOID no statistics row has is
\* in it once, with NaN statistics; a feature whose GEOID some row has
\* carries the values of such a row; and it has no other rows.
C9_JoinIsLeftJoin ==
    (JoinDone /\ ret.kind = "tuple") =>
        LET merged == ret.merged_data.rows
            left == block_group_data.rows
            right == census_data.rows
            RowsOf(l) == {k \in 1..Len(merged) :
                            /\ merged[k]["GEOID"] = l["GEOID"]
                            /\ merged[k]["geometry"] = l["geometry"]}
            Matches(l) == {j \in 1..Len(right) : right[j]["GEOID"] = l["GEOID"]}
        IN  /\ \A i \in 1..Len(left) :
                /\ RowsOf(left[i]) # {}
                /\ Matches(left[i]) = {} =>
                       /\ Cardinality(RowsOf(left[i])) = 1
                       /\ \A k \in RowsOf(left[i]) :
                              \A c \in ValueColumns(census_data) : merged[k][c] = NaN
                /\ Matches(left[i]) # {} =>
                       /\ Cardinality(RowsOf(left[i])) = Cardinality(Matches(left[i]))
                       /\ \A k \in RowsOf(left[i]) : \E j \in Matches(left[i]) :
                              \A c \in ValueColumns(census_data) :
                                  merged[k][c] = right[j][c]
            /\ \A k \in 1..Len(merged) : \E i \in 1..Len(left) : k \in RowsOf(left[i])

\* a join in which one feature has a statistic, another has none, and a
\* statistics row belongs to no feature
C9_Witness ==
    /\ JoinDone
    /\ ret.kind = "tuple"
    /\ Ids(block_group_data) \ Ids(census_data) # {}
    /\ Ids(block_group_data) \cap Ids(census_data) # {}
    /\ Ids(census_data) \ Ids(block_group_data) # {}

SameFeature(a, b) ==
    /\ DOMAIN a = DOMAIN b
    /\ \A c \in DOMAIN a \ {"geometry"} : a[c] = b[c]

\* C10: with R the radius asked for (buffer_miles, at 1609.34 m to the
\* mile), a feature entirely outside the disc of radius R is absent from
\* the clipped output, a feature that meets the disc is present with its
\* geometry cut to the buffer, and no output feature has an empty geometry.
C10_ClipKeepsTheFeaturesOfTheDisc ==
    clip_in.kind = "args" =>
        LET R == clip_in.buffer_miles * 160934
            rows == clip_in.data.rows
            out == clipped.rows
        IN  /\ \A i \in 1..Len(rows) :
                LET g == rows[i]["geometry"]
                IN  /\ g.near > R =>
                           ~ \E k \in 1..Len(out) : SameFeature(out[k], rows[i])
                    /\ g.near <= R =>
                           \E k \in 1..Len(out) :
                               /\ SameFeature(out[k], rows[i])
                               /\ out[k]["geometry"]
                                      = Geom(g.near, Min(g.far, buffer.radius))
            /\ \A k \in 1..Len(out) :
                   out[k]["geometry"].near <= out[k]["geometry"].far

\* the entry points that construct a GeocodingMap, directly or through
\* CombinedCensusMap
BuildsGeocodingMap == app \in {"combined", "geo", "library"}

KeyAbsent == ~ Truthy(getenv(environ, "MAPBOX_ACCESS_TOKEN"))

\* C11: when the mapping-service key is absent from the environment (not set,
\* or set to the empty string), the construction of the pipeline fails with
\* an error that ends the run, and no stage and no service call is ever
\* performed in that process.
C11_MissingKeyIsFatalAtStartup ==
    (BuildsGeocodingMap /\ KeyAbsent) =>
        /\ calls = <<>>
        /\ pc \in {"init", "aborted"}
        /\ pc = "aborted" => instance.kind = "raised"
        /\ (pc = "aborted" /\ app = "geo") => instance.e = "ValueError"

C11_Witness ==
    /\ app = "combined" /\ KeyAbsent
    /\ pc = "aborted"
    /\ instance = [kind |-> "raised", e |-> "ValueError"]
    /\ calls = <<>>

\* the values of the last column over the rows of a frame
ColumnValues(data) ==
    [i \in 1..Len(data.rows) |-> data.rows[i][data.columns[Len(data.columns)]]]

C13_BufferDistanceIsMilesTimes160934 ==
    clip_in.kind = "args" =>
        buffer.radius = clip_in.buffer_miles * 160934

====
